---------------------------- MODULE Spec2Model ----------------------------
(* A model of rpdk.core.project.Project (src/src/rpdk/core/project.py):   *)
(* the project lifecycle (load, generate, submit) with the packaging and  *)
(* registration pipeline, and the schema-driven documentation generator.  *)
(*                                                                        *)
(* Strings that the code concatenates, joins or searches (file names,     *)
(* property names, pointers, messages) are sequences of tokens, so that   *)
(* "-".join(...), lower() and substring tests are computed, not assumed.  *)
EXTENDS Integers, Sequences, FiniteSets, TLC

VARIABLES
    overwrite_enabled, \* Project.overwrite_enabled, set at construction
    language,      \* Project.language
    type_info,     \* Project.type_info: None or the tuple of name segments
    runtime,       \* Project.runtime
    entrypoint,    \* Project.entrypoint
    test_entrypoint, \* Project.test_entrypoint
    settings,      \* Project.settings (NoSettings = None)
    schema,        \* Project.schema: the in-memory schema (NoSchema = None)
    disk,          \* the project directory: file name -> contents
    pc,            \* position of the running submit ("idle" when none runs)
    args,          \* arguments of the running submit
    role_arn,      \* local role_arn of _upload
    archive,       \* entries written to the zip file of the running submit
    calls,         \* remote calls made by the running submit, in order
    plugin,        \* calls made to the language plugin by the last operation
    log,           \* records logged by _wait_for_registration
    response,      \* local response of _wait_for_registration
    result         \* outcome of the last operation

vars == <<overwrite_enabled, language, type_info, runtime, entrypoint,
          test_entrypoint, settings, schema, disk, pc, args, role_arn, archive,
          calls, plugin, log, response, result>>

-----------------------------------------------------------------------------
(* Bounds of the model *)

MaxReasons == 2

-----------------------------------------------------------------------------
(* Python values *)

None == "None"

NoSchema == [None |-> TRUE]

NoSettings == [None |-> TRUE]

(* the dict {} *)
EmptyDict == [k \in {} |-> TRUE]

Falsy(s) == s = None \/ s = ""

(* key in dict *)
Has(node, key) == key \in DOMAIN node

(* dict.get(key, default) *)
Get(node, key, default) == IF Has(node, key) THEN node[key] ELSE default

(* dict[key] = value *)
Put(node, key, value) ==
    [k \in DOMAIN node \cup {key} |-> IF k = key THEN value ELSE node[k]]

Range(s) == {s[i] : i \in 1..Len(s)}

(* the `in` test of two strings: sub occurs in s as a contiguous run *)
Includes(s, sub) ==
    \E i \in 0..(Len(s) - Len(sub)) : \A j \in 1..Len(sub) : s[i + j] = sub[j]

(* str.lower(), token by token *)
LowerToken(t) ==
    CASE t = "AWS" -> "aws"
      [] t = "Color" -> "color"
      [] t = "Red" -> "red"
      [] t = "A" -> "a"
      [] t = "B" -> "b"
      [] OTHER -> t

Lower(s) == [i \in 1..Len(s) |-> LowerToken(s[i])]

(* sep.join(parts) *)
RECURSIVE Join(_, _)
Join(parts, sep) ==
    IF Len(parts) = 0 THEN <<>>
    ELSE IF Len(parts) = 1 THEN parts[1]
    ELSE parts[1] \o sep \o Join(Tail(parts), sep)

-----------------------------------------------------------------------------
(* File names *)

SETTINGS_FILENAME == <<".rpdk-config">>
SCHEMA_UPLOAD_FILENAME == <<"schema.json">>
OVERRIDES_FILENAME == <<"overrides.json">>
ROLE_TEMPLATE_FILENAME == <<"resource-role.yaml">>

HypenatedName(info) == Lower(Join(info, <<"-">>))

hypenated_name == HypenatedName(type_info)

type_name == Join(type_info, <<"::">>)

SchemaFilename(info) == HypenatedName(info) \o <<".json">>

schema_filename == SchemaFilename(type_info)

Exists(path) == path \in DOMAIN disk

WriteFile(d, path, contents) ==
    [p \in DOMAIN d \cup {path} |-> IF p = path THEN contents ELSE d[p]]

RemoveFile(d, path) == [p \in DOMAIN d \ {path} |-> d[p]]


(* str.split(sep) for a one-token separator *)
RECURSIVE Split(_, _)
Split(s, sep) ==
    IF \A i \in 1..Len(s) : s[i] /= sep THEN <<s>>
    ELSE LET k == CHOOSE i \in 1..Len(s) :
                      s[i] = sep /\ \A j \in 1..(i - 1) : s[j] /= sep
         IN  <<SubSeq(s, 1, k - 1)>> \o Split(SubSeq(s, k + 1, Len(s)), sep)

-----------------------------------------------------------------------------
(* The role template: Project.generate *)

DEFAULT_ROLE_TIMEOUT_MINUTES == 120
MIN_ROLE_TIMEOUT_SECONDS == 3600
MAX_ROLE_TIMEOUT_SECONDS == 43200

Max(S) == CHOOSE x \in S : \A y \in S : y <= x

MinOf(a, b) == IF a <= b THEN a ELSE b

MaxOf(a, b) == IF a >= b THEN a ELSE b

(* the order of Python's str comparison on the action names of the model *)
ActionRank(a) ==
    CASE a = "" -> 0
      [] a = "*" -> 1
      [] a = "ec2:Describe" -> 2
      [] a = "s3:Get" -> 3
      [] a = "s3:Put" -> 4

(* sorted(actions) *)
RECURSIVE Sorted(_)
Sorted(S) ==
    IF S = {} THEN <<>>
    ELSE LET m == CHOOSE x \in S : \A y \in S : ActionRank(x) <= ActionRank(y)
         IN  <<m>> \o Sorted(S \ {m})

(* handler.get("permissions", []) *)
Permissions(handler) ==
    IF "permissions" \in DOMAIN handler THEN handler["permissions"] ELSE <<>>

(* handler.get("timeoutInMinutes", DEFAULT_ROLE_TIMEOUT_MINUTES) *)
TimeoutInMinutes(handler) ==
    IF "timeoutInMinutes" \in DOMAIN handler THEN handler["timeoutInMinutes"]
    ELSE DEFAULT_ROLE_TIMEOUT_MINUTES

(* RoleTemplate that leaves the empty-string actions in *)
RoleTemplateKeepsEmptyAction(handlers, name) ==
    LET actions == UNION {Range(Permissions(handlers[op])) : op \in DOMAIN handlers}
        max_handler_timeout ==
            IF DOMAIN handlers = {} THEN DEFAULT_ROLE_TIMEOUT_MINUTES
            ELSE Max({TimeoutInMinutes(handlers[op]) : op \in DOMAIN handlers})
    IN  [type_name |-> name,
         actions |-> IF actions = {} THEN <<"*">> ELSE Sorted(actions),
         permission |-> IF actions = {} THEN "Deny" ELSE "Allow",
         role_session_timeout |->
             MinOf(MAX_ROLE_TIMEOUT_SECONDS,
                   MaxOf(MIN_ROLE_TIMEOUT_SECONDS, 70 * max_handler_timeout))]

(* RoleTemplate with the timeout taken from the first handler only *)
RoleTemplateFirstHandlerTimeout(handlers, name) ==
    LET actions ==
            UNION {Range(Permissions(handlers[op])) : op \in DOMAIN handlers} \ {""}
        first_handler_timeout ==
            IF DOMAIN handlers = {} THEN DEFAULT_ROLE_TIMEOUT_MINUTES
            ELSE TimeoutInMinutes(handlers[CHOOSE op \in DOMAIN handlers :
                                              op = "read" \/ DOMAIN handlers = {op}])
    IN  [type_name |-> name,
         actions |-> IF actions = {} THEN <<"*">> ELSE Sorted(actions),
         permission |-> IF actions = {} THEN "Deny" ELSE "Allow",
         role_session_timeout |->
             MinOf(MAX_ROLE_TIMEOUT_SECONDS,
                   MaxOf(MIN_ROLE_TIMEOUT_SECONDS, 70 * first_handler_timeout))]

(* the contents generate renders for resource-role.yaml *)
RoleTemplate(handlers, name) ==
    LET all == UNION {Range(Permissions(handlers[op])) : op \in DOMAIN handlers}
        max_handler_timeout ==
            IF DOMAIN handlers = {} THEN DEFAULT_ROLE_TIMEOUT_MINUTES
            ELSE Max({TimeoutInMinutes(handlers[op]) : op \in DOMAIN handlers})
        role_session_timeout ==
            MinOf(MAX_ROLE_TIMEOUT_SECONDS,
                  MaxOf(MIN_ROLE_TIMEOUT_SECONDS, 70 * max_handler_timeout))
        actions == all \ {""}
    IN  [type_name |-> name,
         actions |-> IF actions = {} THEN <<"*">> ELSE Sorted(actions),
         permission |-> IF actions = {} THEN "Deny" ELSE "Allow",
         role_session_timeout |-> role_session_timeout]

-----------------------------------------------------------------------------
(* The project on disk and the schemas of the lifecycle specification *)

ProjectTypeName == <<"AWS", "::", "Color", "::", "Red">>

ProjectSettings ==
    [typeName |-> ProjectTypeName, language |-> "python37",
     runtime |-> "python3.7", entrypoint |-> "handlers.resource",
     testEntrypoint |-> "handlers.test_entrypoint"]

ProjectSchemaFile == SchemaFilename(Split(ProjectTypeName, "::"))

BaseSchema ==
    [typeName |-> ProjectTypeName,
     properties |-> (<<"id">> :> [type |-> "string"])]

WithHandlers(s, handlers) ==
    [k \in DOMAIN s \cup {"handlers"} |->
        IF k = "handlers" THEN handlers ELSE s[k]]

HandlerMaps ==
    { [create |-> [permissions |-> <<"s3:Put", "s3:Get">>,
                   timeoutInMinutes |-> 200],
       read |-> [permissions |-> <<"s3:Get", "">>]],
      [create |-> [permissions |-> <<"ec2:Describe">>]] }

LifecycleSchemas == {BaseSchema} \cup {WithHandlers(BaseSchema, h) : h \in HandlerMaps}

-----------------------------------------------------------------------------
(* Outcomes of operations and the state of a running submit *)

Outcome(op, kind, msg, cause) ==
    [op |-> op, kind |-> kind, msg |-> msg, cause |-> cause]

(* the error an exception is chained to: its kind and the call that raised it *)
Cause(kind, raised_by) == [kind |-> kind, raised_by |-> raised_by]

NoCause == Cause(None, None)

Returned(op) == Outcome(op, "return", <<>>, NoCause)

NoArgs ==
    [dry_run |-> FALSE, role_arn |-> None, use_role |-> FALSE,
     set_default |-> FALSE]

NoTemplate == [None |-> TRUE]

NoResponse == [None |-> TRUE]

RoleArns == {None, "", "arn:aws:iam::role/caller"}

ProvisionedRoleArn == "arn:aws:iam::role/provisioned"

S3Url == "s3://bucket/archive.zip"

LogDeliveryRoleArn == "arn:aws:iam::role/log-delivery"

RegistrationToken == "registration-token"

UUIDs == {"uuid-1", "uuid-2"}

TypeVersionArns == {"arn:type-version/1", "arn:type-version/2"}

(* the status messages describe_type_registration can report *)
Reasons == {<<"status-message-", ToString(k)>> : k \in 1..MaxReasons}

ResetRun ==
    /\ args' = NoArgs
    /\ role_arn' = None
    /\ archive' = {}
    /\ calls' = <<>>
    /\ log' = <<>>
    /\ response' = NoResponse

Init ==
    /\ overwrite_enabled = FALSE
    /\ type_info = None
    /\ language = None
    /\ settings = NoSettings
    /\ runtime = "noexec"
    /\ entrypoint = None
    /\ test_entrypoint = None
    /\ schema = NoSchema
    /\ \E s \in LifecycleSchemas, overrides \in BOOLEAN :
          disk = LET d == (SETTINGS_FILENAME :> ProjectSettings)
                              @@ (ProjectSchemaFile :> s)
                 IN  IF overrides THEN WriteFile(d, OVERRIDES_FILENAME, "{}")
                     ELSE d
    /\ pc = "idle"
    /\ args = NoArgs
    /\ role_arn = None
    /\ archive = {}
    /\ calls = <<>>
    /\ plugin = <<>>
    /\ log = <<>>
    /\ response = NoResponse
    /\ result = Outcome(None, None, <<>>, NoCause)

-----------------------------------------------------------------------------
(* The user's edits of the project directory between operations; like   *)
(* every operation they start a new record of calls, log and result.    *)

WriteSchemaFile(s) ==
    /\ pc = "idle"
    /\ disk' = WriteFile(disk, ProjectSchemaFile, s)
    /\ ResetRun
    /\ plugin' = <<>>
    /\ result' = Returned("edit")
    /\ UNCHANGED <<overwrite_enabled, language, runtime, entrypoint, test_entrypoint, settings, type_info, schema, pc>>

DeleteFile(path) ==
    /\ pc = "idle"
    /\ Exists(path)
    /\ disk' = RemoveFile(disk, path)
    /\ ResetRun
    /\ plugin' = <<>>
    /\ result' = Returned("edit")
    /\ UNCHANGED <<overwrite_enabled, language, runtime, entrypoint, test_entrypoint, settings, type_info, schema, pc>>

-----------------------------------------------------------------------------
(* Project.load: load_settings, then load_schema *)

(* a file json.load cannot parse *)
MalformedJson == [malformed |-> TRUE]

Malformed(contents) == "malformed" \in DOMAIN contents

LAMBDA_RUNTIMES ==
    {"noexec", "java8", "java11", "go1.x", "python3.6", "python3.7", "python3.8",
     "dotnetcore2.1", "nodejs10.x", "nodejs12.x"}

(* TYPE_NAME_REGEX: three segments of letters and digits between "::" *)
TypeNameMatches(name) ==
    LET segments == Split(name, "::")
    IN  /\ Len(segments) = 3
        /\ \A i \in 1..3 : Len(segments[i]) = 1 /\ segments[i][1] \notin {"", "-", "::"}

(* SETTINGS_VALIDATOR.validate(raw_settings) passes *)
SettingsValid(raw_settings) ==
    /\ {"language", "typeName", "runtime", "entrypoint"} \subseteq DOMAIN raw_settings
    /\ DOMAIN raw_settings \subseteq
          {"language", "typeName", "runtime", "entrypoint", "testEntrypoint", "settings"}
    /\ TypeNameMatches(raw_settings["typeName"])
    /\ raw_settings["runtime"] \in LAMBDA_RUNTIMES

InvalidSettingsMessage == <<"Project file '">> \o SETTINGS_FILENAME \o <<"' is invalid">>

(* data_loaders.load_resource_spec(f): the document, or SpecValidationError
   for one that fails the resource specification's rules *)
load_resource_spec(document) ==
    IF Has(document, "typeName") /\ Has(document, "properties")
    THEN [ok |-> TRUE, error |-> <<>>]
    ELSE [ok |-> FALSE, error |-> <<"'properties' is a required property">>]

(* the attributes load_settings assigns, lines 163-169 *)
SettingsFields ==
    <<language, type_info, runtime, entrypoint, test_entrypoint, settings>>

(* Load that passes over a settings file json.load cannot parse *)
LoadSwallowsMalformedSettings ==
    /\ pc = "idle"
    /\ ResetRun
    /\ plugin' = <<>>
    /\ UNCHANGED <<overwrite_enabled, pc, disk>>
    /\ IF ~Exists(SETTINGS_FILENAME)
       THEN /\ result' = Outcome("load", "InvalidProjectError",
                           <<"Project file not found. Have you run 'init'?">>,
                           Cause("FileNotFoundError", "load_settings"))
            /\ UNCHANGED <<SettingsFields, schema>>
       ELSE LET raw_settings == disk[SETTINGS_FILENAME]
                info == Split(raw_settings["typeName"], "::")
            IN  IF Malformed(raw_settings)
                THEN /\ result' = Returned("load")
                     /\ UNCHANGED <<SettingsFields, schema>>
                ELSE IF ~SettingsValid(raw_settings)
                THEN /\ result' = Outcome("load", "InvalidProjectError",
                                    InvalidSettingsMessage,
                                    Cause("ValidationError", "load_settings"))
                     /\ UNCHANGED <<SettingsFields, schema>>
                ELSE IF ~Has(raw_settings, "typeName")
                THEN /\ result' = Outcome("load", "KeyError", <<>>, NoCause)
                     /\ UNCHANGED <<SettingsFields, schema>>
                ELSE IF ~Has(raw_settings, "testEntrypoint")
                THEN /\ type_info' = info
                     /\ language' = raw_settings["language"]
                     /\ runtime' = raw_settings["runtime"]
                     /\ entrypoint' = raw_settings["entrypoint"]
                     /\ result' = Outcome("load", "KeyError", <<>>, NoCause)
                     /\ UNCHANGED <<test_entrypoint, settings, schema>>
                ELSE /\ type_info' = info
                     /\ language' = raw_settings["language"]
                     /\ runtime' = raw_settings["runtime"]
                     /\ entrypoint' = raw_settings["entrypoint"]
                     /\ test_entrypoint' = raw_settings["testEntrypoint"]
                     /\ settings' = Get(raw_settings, "settings", EmptyDict)
                     /\ IF ~Exists(SchemaFilename(info))
                        THEN /\ result' = Outcome("load", "InvalidProjectError",
                                            <<"Resource specification not found.">>,
                                            Cause("FileNotFoundError", "load_schema"))
                             /\ UNCHANGED schema
                        ELSE IF ~load_resource_spec(disk[SchemaFilename(info)]).ok
                        THEN /\ result' = Outcome("load", "InvalidProjectError",
                                            <<"Resource specification is invalid: ">>
                                               \o load_resource_spec(
                                                     disk[SchemaFilename(info)]).error,
                                            Cause("SpecValidationError", "load_schema"))
                             /\ UNCHANGED schema
                        ELSE /\ schema' = disk[SchemaFilename(info)]
                             /\ result' = Returned("load")

Load ==
    /\ pc = "idle"
    /\ ResetRun
    /\ plugin' = <<>>
    /\ UNCHANGED <<overwrite_enabled, pc, disk>>
    /\ IF ~Exists(SETTINGS_FILENAME)
       THEN /\ result' = Outcome("load", "InvalidProjectError",
                           <<"Project file not found. Have you run 'init'?">>,
                           Cause("FileNotFoundError", "load_settings"))
            /\ UNCHANGED <<SettingsFields, schema>>
       ELSE LET raw_settings == disk[SETTINGS_FILENAME]
                info == Split(raw_settings["typeName"], "::")
            IN  IF Malformed(raw_settings)
                THEN /\ result' = Outcome("load", "InvalidProjectError",
                                    InvalidSettingsMessage,
                                    Cause("JSONDecodeError", "load_settings"))
                     /\ UNCHANGED <<SettingsFields, schema>>
                ELSE IF ~SettingsValid(raw_settings)
                THEN /\ result' = Outcome("load", "InvalidProjectError",
                                    InvalidSettingsMessage,
                                    Cause("ValidationError", "load_settings"))
                     /\ UNCHANGED <<SettingsFields, schema>>
                ELSE IF ~Has(raw_settings, "typeName")
                THEN /\ result' = Outcome("load", "KeyError", <<>>, NoCause)
                     /\ UNCHANGED <<SettingsFields, schema>>
                ELSE IF ~Has(raw_settings, "testEntrypoint")
                THEN /\ type_info' = info
                     /\ language' = raw_settings["language"]
                     /\ runtime' = raw_settings["runtime"]
                     /\ entrypoint' = raw_settings["entrypoint"]
                     /\ result' = Outcome("load", "KeyError", <<>>, NoCause)
                     /\ UNCHANGED <<test_entrypoint, settings, schema>>
                ELSE /\ type_info' = info
                     /\ language' = raw_settings["language"]
                     /\ runtime' = raw_settings["runtime"]
                     /\ entrypoint' = raw_settings["entrypoint"]
                     /\ test_entrypoint' = raw_settings["testEntrypoint"]
                     /\ settings' = Get(raw_settings, "settings", EmptyDict)
                     /\ IF ~Exists(SchemaFilename(info))
                        THEN /\ result' = Outcome("load", "InvalidProjectError",
                                            <<"Resource specification not found.">>,
                                            Cause("FileNotFoundError", "load_schema"))
                             /\ UNCHANGED schema
                        ELSE IF ~load_resource_spec(disk[SchemaFilename(info)]).ok
                        THEN /\ result' = Outcome("load", "InvalidProjectError",
                                            <<"Resource specification is invalid: ">>
                                               \o load_resource_spec(
                                                     disk[SchemaFilename(info)]).error,
                                            Cause("SpecValidationError", "load_schema"))
                             /\ UNCHANGED schema
                        ELSE /\ schema' = disk[SchemaFilename(info)]
                             /\ result' = Returned("load")

(* Generate that renders the role template also without declared handlers *)
GenerateAlwaysRendersTemplate ==
    /\ pc = "idle"
    /\ ResetRun
    /\ UNCHANGED <<overwrite_enabled, language, runtime, entrypoint, test_entrypoint, settings, pc, type_info, schema>>
    /\ IF schema = NoSchema
       THEN /\ result' = Outcome("generate", "TypeError", <<>>, NoCause)
            /\ plugin' = <<>>
            /\ UNCHANGED disk
       ELSE /\ result' = Returned("generate")
            /\ plugin' = <<"generate">>
            /\ disk' = WriteFile(disk, ROLE_TEMPLATE_FILENAME,
                          RoleTemplate(IF "handlers" \in DOMAIN schema
                                       THEN schema["handlers"] ELSE <<>>,
                                       hypenated_name))

(* Project.generate: the role template, then the plugin's generate *)
Generate ==
    /\ pc = "idle"
    /\ ResetRun
    /\ UNCHANGED <<overwrite_enabled, language, runtime, entrypoint, test_entrypoint, settings, pc, type_info, schema>>
    /\ IF schema = NoSchema
       THEN /\ result' = Outcome("generate", "TypeError", <<>>, NoCause)
            /\ plugin' = <<>>
            /\ UNCHANGED disk
       ELSE /\ result' = Returned("generate")
            /\ plugin' = <<"generate">>
            /\ IF "handlers" \in DOMAIN schema
               THEN disk' = WriteFile(disk, ROLE_TEMPLATE_FILENAME,
                                RoleTemplate(schema["handlers"], hypenated_name))
               ELSE UNCHANGED disk

-----------------------------------------------------------------------------
(* Project.submit: packaging *)

ZipPath == hypenated_name \o <<".zip">>

(* an exception leaves submit: the zip file is closed, the operation ends *)
Raise(kind, msg, cause) ==
    /\ pc' = "idle"
    /\ result' = Outcome("submit", kind, msg, cause)

Return ==
    /\ pc' = "idle"
    /\ result' = Returned("submit")

(* a remote call and what it reported: "ok" or the exception it raised *)
Call(record, outcome) ==
    calls' = Append(calls, [k \in DOMAIN record \cup {"outcome"} |->
                               IF k = "outcome" THEN outcome ELSE record[k]])

SubmitBegin(dry_run, arn, use_role, set_default) ==
    /\ pc = "idle"
    /\ args' = [dry_run |-> dry_run, role_arn |-> arn, use_role |-> use_role,
                set_default |-> set_default]
    /\ role_arn' = arn
    /\ archive' = {}
    /\ calls' = <<>>
    /\ plugin' = <<>>
    /\ log' = <<>>
    /\ response' = NoResponse
    /\ UNCHANGED <<overwrite_enabled, language, runtime, entrypoint, test_entrypoint, settings, type_info, schema>>
    /\ IF type_info = None
       THEN /\ Raise("TypeError", <<>>, NoCause)
            /\ UNCHANGED disk
       ELSE /\ pc' = "zip"
            /\ result' = Outcome("submit", "running", <<>>, NoCause)
            /\ disk' = IF dry_run THEN WriteFile(disk, ZipPath, {}) ELSE disk

(* ZipCore that treats a missing overrides file like a missing schema *)
ZipCoreRequiresOverrides ==
    /\ pc = "zip"
    /\ UNCHANGED <<overwrite_enabled, language, runtime, entrypoint, test_entrypoint, settings, type_info, schema, args, plugin, role_arn, calls, log, response>>
    /\ LET written ==
               IF ~Exists(schema_filename) THEN {}
               ELSE IF ~Exists(SETTINGS_FILENAME) THEN {SCHEMA_UPLOAD_FILENAME}
               ELSE {SCHEMA_UPLOAD_FILENAME, SETTINGS_FILENAME}
                        \cup (IF Exists(OVERRIDES_FILENAME)
                              THEN {OVERRIDES_FILENAME} ELSE {})
           complete == /\ Exists(schema_filename) /\ Exists(SETTINGS_FILENAME)
                       /\ Exists(OVERRIDES_FILENAME)
       IN  /\ archive' = written
           /\ IF complete
              THEN /\ pc' = "plugin_package"
                   /\ UNCHANGED <<disk, result>>
              ELSE /\ Raise("FileNotFoundError", <<>>, NoCause)
                   /\ disk' = IF args.dry_run
                              THEN WriteFile(disk, ZipPath, written) ELSE disk

(* the entries submit itself writes: schema, settings, optional overrides *)
ZipCore ==
    /\ pc = "zip"
    /\ UNCHANGED <<overwrite_enabled, language, runtime, entrypoint, test_entrypoint, settings, type_info, schema, args, plugin, role_arn, calls, log, response>>
    /\ LET written ==
               IF ~Exists(schema_filename) THEN {}
               ELSE IF ~Exists(SETTINGS_FILENAME) THEN {SCHEMA_UPLOAD_FILENAME}
               ELSE {SCHEMA_UPLOAD_FILENAME, SETTINGS_FILENAME}
                        \cup (IF Exists(OVERRIDES_FILENAME)
                              THEN {OVERRIDES_FILENAME} ELSE {})
       IN  /\ archive' = written
           /\ IF Exists(schema_filename) /\ Exists(SETTINGS_FILENAME)
              THEN /\ pc' = "plugin_package"
                   /\ UNCHANGED <<disk, result>>
              ELSE /\ Raise("FileNotFoundError", <<>>, NoCause)
                   /\ disk' = IF args.dry_run
                              THEN WriteFile(disk, ZipPath, written) ELSE disk

(* self._plugin.package(self, zip_file), then the zip file is closed *)
PluginPackage ==
    /\ pc = "plugin_package"
    /\ archive' = archive \cup {<<"plugin-artifacts">>}
    /\ disk' = IF args.dry_run THEN WriteFile(disk, ZipPath, archive') ELSE disk
    /\ plugin' = Append(plugin, "package")
    /\ pc' = "packaged"
    /\ UNCHANGED <<overwrite_enabled, language, runtime, entrypoint, test_entrypoint, settings, type_info, schema, args, role_arn, calls, log, response, result>>

(* DryRunComplete that ends a submit after packaging whatever dry_run is *)
DryRunCompleteAlways ==
    /\ pc = "packaged"
    /\ Return
    /\ UNCHANGED <<overwrite_enabled, language, runtime, entrypoint, test_entrypoint, settings, type_info, schema, disk, args, plugin, role_arn, archive, calls, log, response>>

DryRunComplete ==
    /\ pc = "packaged"
    /\ args.dry_run
    /\ Return
    /\ UNCHANGED <<overwrite_enabled, language, runtime, entrypoint, test_entrypoint, settings, type_info, schema, disk, args, plugin, role_arn, archive, calls, log, response>>

-----------------------------------------------------------------------------
(* Project._upload *)

(* NeedsRole without the test for declared handlers *)
NeedsRoleWithoutHandlers ==
    args.use_role /\ Falsy(args.role_arn)

(* line 491: use_role and not role_arn and "handlers" in self.schema *)
NeedsRole ==
    args.use_role /\ Falsy(args.role_arn) /\ "handlers" \in DOMAIN schema

(* uploader.create_or_update_role(root / ROLE_TEMPLATE_FILENAME, name); *)
(* the callee reads the template file, which generate alone writes      *)
ProvisionRole ==
    /\ pc = "packaged"
    /\ ~args.dry_run
    /\ schema /= NoSchema
    /\ NeedsRole
    /\ UNCHANGED <<overwrite_enabled, language, runtime, entrypoint, test_entrypoint, settings, type_info, schema, disk, args, plugin, archive, log, response>>
    /\ LET call == [op |-> "create_or_update_role",
                    template_path |-> ROLE_TEMPLATE_FILENAME,
                    template |-> IF Exists(ROLE_TEMPLATE_FILENAME)
                                 THEN disk[ROLE_TEMPLATE_FILENAME] ELSE NoTemplate,
                    name |-> hypenated_name]
       IN  IF ~Exists(ROLE_TEMPLATE_FILENAME)
           THEN /\ Call(call, "FileNotFoundError")
                /\ Raise("FileNotFoundError", <<>>, NoCause)
                /\ UNCHANGED role_arn
           ELSE \/ /\ Call(call, "ok")
                   /\ role_arn' = ProvisionedRoleArn
                   /\ pc' = "upload"
                   /\ UNCHANGED result
                \/ /\ Call(call, "DownstreamError")
                   /\ Raise("DownstreamError", <<"Failed to create execution role">>,
                            Cause("ClientError", "create_or_update_role"))
                   /\ UNCHANGED role_arn

(* SkipRole going on to the upload whatever line 491 says *)
SkipRoleUnconditionally ==
    /\ pc = "packaged"
    /\ ~args.dry_run
    /\ UNCHANGED <<overwrite_enabled, language, runtime, entrypoint, test_entrypoint, settings, type_info, schema, disk, args, plugin, role_arn, archive, calls, log, response>>
    /\ pc' = "upload"
    /\ UNCHANGED result

(* the condition of line 491 is false, or cannot be evaluated on no schema *)
SkipRole ==
    /\ pc = "packaged"
    /\ ~args.dry_run
    /\ UNCHANGED <<overwrite_enabled, language, runtime, entrypoint, test_entrypoint, settings, type_info, schema, disk, args, plugin, role_arn, archive, calls, log, response>>
    /\ IF args.use_role /\ Falsy(args.role_arn) /\ schema = NoSchema
       THEN Raise("TypeError", <<>>, NoCause)
       ELSE /\ ~NeedsRole
            /\ pc' = "upload"
            /\ UNCHANGED result

(* Upload with a failed upload attempted once more *)
UploadRetried ==
    /\ pc = "upload"
    /\ UNCHANGED <<overwrite_enabled, language, runtime, entrypoint, test_entrypoint, settings, type_info, schema, disk, args, plugin, role_arn, archive, log, response>>
    /\ LET call == [op |-> "upload", name |-> hypenated_name, entries |-> archive]
       IN  \/ /\ Call(call, "ok")
              /\ pc' = "log_role"
              /\ UNCHANGED result
           \/ /\ Call(call, "DownstreamError")
              /\ IF Len(calls) < 2
                 THEN UNCHANGED <<pc, result>>
                 ELSE Raise("DownstreamError", <<"Failed to upload artifacts">>,
                            Cause("ClientError", "upload"))

(* uploader.upload(self.hypenated_name, fileobj) *)
Upload ==
    /\ pc = "upload"
    /\ UNCHANGED <<overwrite_enabled, language, runtime, entrypoint, test_entrypoint, settings, type_info, schema, disk, args, plugin, role_arn, archive, log, response>>
    /\ LET call == [op |-> "upload", name |-> hypenated_name, entries |-> archive]
       IN  \/ /\ Call(call, "ok")
              /\ pc' = "log_role"
              /\ UNCHANGED result
           \/ /\ Call(call, "DownstreamError")
              /\ Raise("DownstreamError", <<"Failed to upload artifacts">>,
                       Cause("ClientError", "upload"))

(* uploader.get_log_delivery_role_arn() *)
GetLogDeliveryRole ==
    /\ pc = "log_role"
    /\ UNCHANGED <<overwrite_enabled, language, runtime, entrypoint, test_entrypoint, settings, type_info, schema, disk, args, plugin, role_arn, archive, log, response>>
    /\ LET call == [op |-> "get_log_delivery_role_arn"]
       IN  \/ /\ Call(call, "ok")
              /\ pc' = "register"
              /\ UNCHANGED result
           \/ /\ Call(call, "DownstreamError")
              /\ Raise("DownstreamError", <<"Failed to read the log delivery role">>,
                       Cause("ClientError", "get_log_delivery_role_arn"))

(* RegisterKwargs sending every role ARN it holds, whatever use_role says *)
RegisterKwargsIgnoresUseRole(uuid) ==
    LET kwargs ==
            [Type |-> "RESOURCE",
             TypeName |-> type_name,
             SchemaHandlerPackage |-> S3Url,
             ClientRequestToken |-> uuid,
             LoggingConfig |->
                 [LogRoleArn |-> LogDeliveryRoleArn,
                  LogGroupName |-> hypenated_name \o <<"-logs">>]]
    IN  IF ~Falsy(role_arn)
        THEN [k \in DOMAIN kwargs \cup {"ExecutionRoleArn"} |->
                 IF k = "ExecutionRoleArn" THEN role_arn ELSE kwargs[k]]
        ELSE kwargs

(* the keyword arguments of lines 501-512 *)
RegisterKwargs(uuid) ==
    LET kwargs ==
            [Type |-> "RESOURCE",
             TypeName |-> type_name,
             SchemaHandlerPackage |-> S3Url,
             ClientRequestToken |-> uuid,
             LoggingConfig |->
                 [LogRoleArn |-> LogDeliveryRoleArn,
                  LogGroupName |-> hypenated_name \o <<"-logs">>]]
    IN  IF ~Falsy(role_arn) /\ args.use_role
        THEN [k \in DOMAIN kwargs \cup {"ExecutionRoleArn"} |->
                 IF k = "ExecutionRoleArn" THEN role_arn ELSE kwargs[k]]
        ELSE kwargs

(* RegisterType with a rejection followed by the wait all the same *)
RegisterTypeNotTerminal ==
    /\ pc = "register"
    /\ UNCHANGED <<overwrite_enabled, language, runtime, entrypoint, test_entrypoint, settings, type_info, schema, disk, args, plugin, role_arn, archive, log, response>>
    /\ \E uuid \in UUIDs :
          LET call == [op |-> "register_type", kwargs |-> RegisterKwargs(uuid)]
          IN  \/ /\ Call(call, "ok")
                 /\ pc' = "wait"
                 /\ UNCHANGED result
              \/ /\ Call(call, "ClientError")
                 /\ pc' = "wait"
                 /\ UNCHANGED result

(* cfn_client.register_type, lines 514-523 *)
RegisterType ==
    /\ pc = "register"
    /\ UNCHANGED <<overwrite_enabled, language, runtime, entrypoint, test_entrypoint, settings, type_info, schema, disk, args, plugin, role_arn, archive, log, response>>
    /\ \E uuid \in UUIDs :
          LET call == [op |-> "register_type", kwargs |-> RegisterKwargs(uuid)]
          IN  \/ /\ Call(call, "ok")
                 /\ pc' = "wait"
                 /\ UNCHANGED result
              \/ /\ Call(call, "ClientError")
                 /\ Raise("DownstreamError", <<"Unknown CloudFormation error">>,
                          Cause("ClientError", "register_type"))

-----------------------------------------------------------------------------
(* Project._wait_for_registration *)

Warning(msg, resp) == [level |-> "warning", msg |-> msg, response |-> resp]

(* registration_waiter.wait(RegistrationToken=registration_token) *)
Wait ==
    /\ pc = "wait"
    /\ UNCHANGED <<overwrite_enabled, language, runtime, entrypoint, test_entrypoint, settings, type_info, schema, disk, args, plugin, role_arn, archive, response, result>>
    /\ LET call == [op |-> "wait", RegistrationToken |-> RegistrationToken]
           submitted ==
               Warning(<<"Successfully submitted type. Waiting for registration">>,
                       NoResponse)
       IN  \/ /\ Call(call, "ok")
              /\ pc' = "describe"
              /\ log' = log \o
                   <<submitted, Warning(<<"Registration complete.">>, NoResponse)>>
           \/ /\ Call(call, "WaiterError")
              /\ pc' = "describe_failed"
              /\ log' = log \o
                   <<submitted,
                     Warning(<<"Failed to register the type with registration token">>,
                             NoResponse)>>

(* DescribeAfterFailure without the warning that carries the response *)
DescribeAfterFailureUnlogged ==
    /\ pc = "describe_failed"
    /\ UNCHANGED <<overwrite_enabled, language, runtime, entrypoint, test_entrypoint, settings, type_info, schema, disk, args, plugin, role_arn, archive>>
    /\ LET call == [op |-> "describe_type_registration",
                    RegistrationToken |-> RegistrationToken]
       IN  \/ \E reason \in Reasons :
                 /\ Call(call, "ok")
                 /\ response' = [ProgressStatus |-> "FAILED", Description |-> reason,
                                 TypeVersionArn |-> None]
                 /\ UNCHANGED log
                 /\ Raise("DownstreamError", <<"Type registration error">>,
                          Cause("WaiterError", "wait"))
           \/ /\ Call(call, "ClientError")
              /\ UNCHANGED <<log, response>>
              /\ Raise("DownstreamError", <<"Error describing type registration">>,
                       Cause("ClientError", "describe_type_registration"))

(* DescribeAfterFailure with the failure of the read masked by the waiter's *)
DescribeAfterFailureMasked ==
    /\ pc = "describe_failed"
    /\ UNCHANGED <<overwrite_enabled, language, runtime, entrypoint, test_entrypoint, settings, type_info, schema, disk, args, plugin, role_arn, archive>>
    /\ LET call == [op |-> "describe_type_registration",
                    RegistrationToken |-> RegistrationToken]
       IN  \/ \E reason \in Reasons :
                 /\ Call(call, "ok")
                 /\ response' = [ProgressStatus |-> "FAILED", Description |-> reason,
                                 TypeVersionArn |-> None]
                 /\ log' = Append(log,
                        Warning(<<"Please see response for additional information: ">>,
                                response'))
                 /\ Raise("DownstreamError", <<"Type registration error">>,
                          Cause("WaiterError", "wait"))
           \/ /\ Call(call, "ClientError")
              /\ UNCHANGED <<log, response>>
              /\ Raise("DownstreamError", <<"Type registration error">>,
                       Cause("WaiterError", "wait"))

(* the diagnostic read after a WaiterError, lines 540-555 *)
DescribeAfterFailure ==
    /\ pc = "describe_failed"
    /\ UNCHANGED <<overwrite_enabled, language, runtime, entrypoint, test_entrypoint, settings, type_info, schema, disk, args, plugin, role_arn, archive>>
    /\ LET call == [op |-> "describe_type_registration",
                    RegistrationToken |-> RegistrationToken]
       IN  \/ \E reason \in Reasons :
                 /\ Call(call, "ok")
                 /\ response' = [ProgressStatus |-> "FAILED", Description |-> reason,
                                 TypeVersionArn |-> None]
                 /\ log' = Append(log,
                        Warning(<<"Please see response for additional information: ">>,
                                response'))
                 /\ Raise("DownstreamError", <<"Type registration error">>,
                          Cause("WaiterError", "wait"))
           \/ /\ Call(call, "ClientError")
              /\ UNCHANGED <<log, response>>
              /\ Raise("DownstreamError", <<"Error describing type registration">>,
                       Cause("ClientError", "describe_type_registration"))

(* DescribeAfterSuccess promoting the version whether or not it was asked to *)
DescribeAfterSuccessAlwaysDefault ==
    /\ pc = "describe"
    /\ UNCHANGED <<overwrite_enabled, language, runtime, entrypoint, test_entrypoint, settings, type_info, schema, disk, args, plugin, role_arn, archive>>
    /\ LET call == [op |-> "describe_type_registration",
                    RegistrationToken |-> RegistrationToken]
       IN  \/ \E arn \in TypeVersionArns :
                 /\ Call(call, "ok")
                 /\ response' = [ProgressStatus |-> "COMPLETE", Description |-> <<>>,
                                 TypeVersionArn |-> arn]
                 /\ log' = Append(log, Warning(<<>>, response'))
                 /\ pc' = "set_default"
                 /\ UNCHANGED result
           \/ /\ Call(call, "ClientError")
              /\ UNCHANGED <<log, response>>
              /\ Raise("ClientError", <<>>, NoCause)

(* the final read after the waiter succeeded, lines 556-561 *)
DescribeAfterSuccess ==
    /\ pc = "describe"
    /\ UNCHANGED <<overwrite_enabled, language, runtime, entrypoint, test_entrypoint, settings, type_info, schema, disk, args, plugin, role_arn, archive>>
    /\ LET call == [op |-> "describe_type_registration",
                    RegistrationToken |-> RegistrationToken]
       IN  \/ \E arn \in TypeVersionArns :
                 /\ Call(call, "ok")
                 /\ response' = [ProgressStatus |-> "COMPLETE", Description |-> <<>>,
                                 TypeVersionArn |-> arn]
                 /\ log' = Append(log, Warning(<<>>, response'))
                 /\ IF args.set_default
                    THEN pc' = "set_default" /\ UNCHANGED result
                    ELSE Return
           \/ /\ Call(call, "ClientError")
              /\ UNCHANGED <<log, response>>
              /\ Raise("ClientError", <<>>, NoCause)

(* cfn_client.set_type_default_version(Arn=arn), lines 562-571 *)
SetDefaultVersion ==
    /\ pc = "set_default"
    /\ UNCHANGED <<overwrite_enabled, language, runtime, entrypoint, test_entrypoint, settings, type_info, schema, disk, args, plugin, role_arn, archive, response>>
    /\ LET call == [op |-> "set_type_default_version",
                    Arn |-> response["TypeVersionArn"]]
       IN  \/ /\ Call(call, "ok")
              /\ log' = Append(log, Warning(<<"Set default version to">>, NoResponse))
              /\ Return
           \/ /\ Call(call, "ClientError")
              /\ UNCHANGED log
              /\ Raise("DownstreamError", <<"Error setting default version">>,
                       Cause("ClientError", "set_type_default_version"))

-----------------------------------------------------------------------------
(* The lifecycle specification *)

Next ==
    \/ \E s \in LifecycleSchemas : WriteSchemaFile(s)
    \/ \E path \in {SETTINGS_FILENAME, ProjectSchemaFile, OVERRIDES_FILENAME} :
          DeleteFile(path)
    \/ Load
    \/ Generate
    \/ \E dry_run \in BOOLEAN, arn \in RoleArns, use_role \in BOOLEAN,
          set_default \in BOOLEAN :
          SubmitBegin(dry_run, arn, use_role, set_default)
    \/ ZipCore
    \/ PluginPackage
    \/ DryRunComplete
    \/ ProvisionRole
    \/ SkipRole
    \/ Upload
    \/ GetLogDeliveryRole
    \/ RegisterType
    \/ Wait
    \/ DescribeAfterFailure
    \/ DescribeAfterSuccess
    \/ SetDefaultVersion

Spec == Init /\ [][Next]_vars

-----------------------------------------------------------------------------
(* The role-template specification: load and generate over the handler    *)
(* maps a schema can declare                                              *)

(* a handler with the given permissions list and timeoutInMinutes; each is
   <<v>> for a declared value v and <<>> for a key the handler leaves out *)
Handler(permissions, timeout) ==
    [k \in (IF permissions = <<>> THEN {} ELSE {"permissions"})
             \cup (IF timeout = <<>> THEN {} ELSE {"timeoutInMinutes"}) |->
        IF k = "permissions" THEN permissions[1] ELSE timeout[1]]

PermissionLists ==
    {<<>>, << <<>> >>, << <<"">> >>, << <<"s3:Put", "s3:Get">> >>,
     << <<"s3:Get", "">> >>, << <<"ec2:Describe", "s3:Get">> >>}

HandlerTimeouts == {<<>>, <<30>>, <<200>>, <<700>>}

Handlers == {Handler(p, t) : p \in PermissionLists, t \in HandlerTimeouts}

GenerateHandlerMaps ==
    {<<>>} \cup {[op \in {"create"} |-> h] : h \in Handlers}
           \cup {[create |-> c, read |-> r] : c \in Handlers, r \in Handlers}

GenerateSchemas ==
    {BaseSchema} \cup {WithHandlers(BaseSchema, h) : h \in GenerateHandlerMaps}

InitGenerate ==
    /\ overwrite_enabled = FALSE
    /\ type_info = None
    /\ language = None
    /\ settings = NoSettings
    /\ runtime = "noexec"
    /\ entrypoint = None
    /\ test_entrypoint = None
    /\ schema = NoSchema
    /\ \E s \in GenerateSchemas :
          disk = (SETTINGS_FILENAME :> ProjectSettings) @@ (ProjectSchemaFile :> s)
    /\ pc = "idle"
    /\ args = NoArgs
    /\ role_arn = None
    /\ archive = {}
    /\ calls = <<>>
    /\ plugin = <<>>
    /\ log = <<>>
    /\ response = NoResponse
    /\ result = Outcome(None, None, <<>>, NoCause)

NextGenerate ==
    \/ Load
    \/ Generate

SpecGenerate == InitGenerate /\ [][NextGenerate]_vars

(* generate has returned for a schema that declares handlers *)
TemplateRendered ==
    /\ result = Returned("generate")
    /\ "handlers" \in DOMAIN schema

(* the non-empty actions the handlers of the held schema declare *)
DeclaredActions ==
    {a \in {"*", "ec2:Describe", "s3:Get", "s3:Put"} :
        \E op \in DOMAIN schema["handlers"] :
            /\ "permissions" \in DOMAIN schema["handlers"][op]
            /\ \E i \in DOMAIN schema["handlers"][op]["permissions"] :
                  schema["handlers"][op]["permissions"][i] = a}

(* C11: the role template generate renders has, when the handlers declare a
   non-empty action, effect Allow and as actions the ascending list without
   repetition of the declared non-empty actions; when they declare none, the
   actions are exactly the wildcard and the effect is Deny. Allow never
   comes with an empty list or with the substituted wildcard. *)
C11_ActionsAndEffect ==
    TemplateRendered =>
        LET template == disk[ROLE_TEMPLATE_FILENAME]
        IN  /\ template.permission \in {"Allow", "Deny"}
            /\ DeclaredActions /= {} =>
                  /\ template.permission = "Allow"
                  /\ Range(template.actions) = DeclaredActions
                  /\ Len(template.actions) = Cardinality(DeclaredActions)
                  /\ \A i, j \in DOMAIN template.actions :
                        i < j => ActionRank(template.actions[i])
                                    < ActionRank(template.actions[j])
            /\ DeclaredActions = {} =>
                  /\ template.permission = "Deny"
                  /\ template.actions = <<"*">>
            /\ template.permission = "Allow" =>
                  /\ template.actions /= <<>>
                  /\ "" \notin Range(template.actions)
                  /\ Range(template.actions) \subseteq DeclaredActions

C11_Witness ==
    /\ TemplateRendered
    /\ DOMAIN schema["handlers"] = {"create", "read"}
    /\ DeclaredActions = {}
    /\ \E op \in DOMAIN schema["handlers"] :
          "permissions" \in DOMAIN schema["handlers"][op]
             /\ schema["handlers"][op]["permissions"] = <<"">>

(* the timeout a handler counts with: its timeoutInMinutes or 120 *)
EffectiveTimeout(op) ==
    IF "timeoutInMinutes" \in DOMAIN schema["handlers"][op]
    THEN schema["handlers"][op]["timeoutInMinutes"]
    ELSE 120

(* C12: the role session timeout generate renders is 70 * M held into
   [3600, 43200], M being the largest timeoutInMinutes of the declared
   handlers (120 for a handler without one, 120 for an empty handler map);
   for handlers {create: 200, read: 30} it is 14000. *)
C12_SessionTimeout ==
    TemplateRendered =>
        LET timeout == disk[ROLE_TEMPLATE_FILENAME].role_session_timeout
            ops == DOMAIN schema["handlers"]
        IN  /\ timeout >= 3600
            /\ timeout <= 43200
            /\ \E M \in {120} \cup {EffectiveTimeout(op) : op \in ops} :
                  /\ \A op \in ops : EffectiveTimeout(op) <= M
                  /\ ops /= {} => \E op \in ops : EffectiveTimeout(op) = M
                  /\ timeout = IF 70 * M < 3600 THEN 3600
                               ELSE IF 70 * M > 43200 THEN 43200
                               ELSE 70 * M
            /\ (/\ ops = {"create", "read"}
                /\ \A op \in ops : "timeoutInMinutes" \in DOMAIN schema["handlers"][op]
                /\ schema["handlers"]["create"]["timeoutInMinutes"] = 200
                /\ schema["handlers"]["read"]["timeoutInMinutes"] = 30)
                  => timeout = 14000

C12_Witness ==
    /\ TemplateRendered
    /\ DOMAIN schema["handlers"] = {"create", "read"}
    /\ EffectiveTimeout("create") = 200
    /\ EffectiveTimeout("read") = 30
    /\ disk[ROLE_TEMPLATE_FILENAME].role_session_timeout = 14000

(* C13: a generate over a schema without a handlers key leaves the role
   template file as it was (not created, not modified) and still invokes the
   plugin's generate; over a schema with handlers it replaces the file,
   whatever it held, by the template of the held schema. *)
C13_TemplateOnlyWithHandlers ==
    [][ result' = Returned("generate") =>
          /\ plugin' = <<"generate">>
          /\ "handlers" \notin DOMAIN schema =>
                /\ Exists(ROLE_TEMPLATE_FILENAME)' = Exists(ROLE_TEMPLATE_FILENAME)
                /\ Exists(ROLE_TEMPLATE_FILENAME) =>
                      disk'[ROLE_TEMPLATE_FILENAME] = disk[ROLE_TEMPLATE_FILENAME]
          /\ "handlers" \in DOMAIN schema =>
                /\ Exists(ROLE_TEMPLATE_FILENAME)'
                /\ disk'[ROLE_TEMPLATE_FILENAME].type_name = hypenated_name
                /\ Range(disk'[ROLE_TEMPLATE_FILENAME].actions) =
                      IF DeclaredActions = {} THEN {"*"} ELSE DeclaredActions
          /\ \A path \in DOMAIN disk \cup DOMAIN disk' :
                path /= ROLE_TEMPLATE_FILENAME =>
                   path \in DOMAIN disk /\ path \in DOMAIN disk'
                      /\ disk'[path] = disk[path] ]_vars

C13_Witness ==
    /\ result = Returned("generate")
    /\ plugin = <<"generate">>
    /\ "handlers" \notin DOMAIN schema
    /\ Exists(ROLE_TEMPLATE_FILENAME)

-----------------------------------------------------------------------------
(* The load specification: load over the settings and schema files a      *)
(* project directory can hold                                             *)

Without(record, key) == [k \in DOMAIN record \ {key} |-> record[k]]

(* a valid settings document without the optional keys *)
JavaSettings ==
    [typeName |-> ProjectTypeName, language |-> "java", runtime |-> "java8",
     entrypoint |-> None]

SettingsFiles ==
    { ProjectSettings,
      MalformedJson,
      Without(ProjectSettings, "runtime"),
      Put(ProjectSettings, "runtime", "cobol"),
      Put(ProjectSettings, "typeName", <<"AWS", "::", "Color">>),
      Put(ProjectSettings, "author", "someone"),
      Without(ProjectSettings, "testEntrypoint"),
      Put(ProjectSettings, "settings", [protocolVersion |-> "2.0.0"]),
      JavaSettings,
      Put(ProjectSettings, "typeName", <<"AWS", "::", "Color", "::", "Blue">>) }

InvalidSchemaFile == [typeName |-> ProjectTypeName]

LoadSchemaFiles == LifecycleSchemas \cup {InvalidSchemaFile}

WriteSettingsFile(s) ==
    /\ pc = "idle"
    /\ disk' = WriteFile(disk, SETTINGS_FILENAME, s)
    /\ ResetRun
    /\ plugin' = <<>>
    /\ result' = Returned("edit")
    /\ UNCHANGED <<overwrite_enabled, language, runtime, entrypoint, test_entrypoint, settings, type_info, schema, pc>>

NextLoad ==
    \/ \E s \in SettingsFiles : WriteSettingsFile(s)
    \/ \E s \in LoadSchemaFiles : WriteSchemaFile(s)
    \/ \E path \in {SETTINGS_FILENAME, ProjectSchemaFile} : DeleteFile(path)
    \/ Load

SpecLoad == Init /\ [][NextLoad]_vars

(* the faults of the settings file: missing, not JSON, or rejected by the
   settings validator *)
SettingsFault ==
    \/ ~Exists(SETTINGS_FILENAME)
    \/ Malformed(disk[SETTINGS_FILENAME])
    \/ ~SettingsValid(disk[SETTINGS_FILENAME])

(* the faults of the schema file, for settings that name it: missing, or
   rejected by the resource specification's validation *)
SchemaFault ==
    LET name == Lower(Join(Split(disk[SETTINGS_FILENAME]["typeName"], "::"), <<"-">>))
                   \o <<".json">>
    IN  \/ name \notin DOMAIN disk
        \/ ~load_resource_spec(disk[name]).ok

(* C19: a load that meets a missing settings file, a settings file that is
   not JSON, a settings document the validator rejects, a missing schema
   file or a schema the specification validation rejects ends with
   InvalidProjectError chained to the error that was raised, never with a
   normal return; after a fault of the settings file the schema the project
   holds is the one it held before. *)
C19_LoadFaults ==
    [][ result'.op = "load" =>
          /\ SettingsFault =>
                /\ result'.kind = "InvalidProjectError"
                /\ result'.cause.raised_by = "load_settings"
                /\ result'.cause.kind =
                      IF ~Exists(SETTINGS_FILENAME) THEN "FileNotFoundError"
                      ELSE IF Malformed(disk[SETTINGS_FILENAME]) THEN "JSONDecodeError"
                      ELSE "ValidationError"
                /\ schema' = schema
          /\ (/\ ~SettingsFault
              /\ Has(disk[SETTINGS_FILENAME], "testEntrypoint")
              /\ SchemaFault) =>
                /\ result'.kind = "InvalidProjectError"
                /\ result'.cause.raised_by = "load_schema"
                /\ result'.cause.kind \in {"FileNotFoundError", "SpecValidationError"}
                /\ schema' = schema
          /\ result'.kind = "return" =>
                /\ ~SettingsFault
                /\ ~SchemaFault
                /\ schema' /= NoSchema ]_vars

C19_Witness ==
    /\ result.op = "load"
    /\ result.kind = "InvalidProjectError"
    /\ result.cause = Cause("ValidationError", "load_settings")
    /\ schema /= NoSchema

(* C22: load_settings is all-or-nothing. For every settings document that
   passes the settings validation (language, typeName, runtime and
   entrypoint present; testEntrypoint and settings present or not) it
   completes and sets type_info, language, runtime, entrypoint,
   test_entrypoint and settings from the document; and whenever
   load_settings fails, these six attributes keep the values they had
   before the call. *)
C22_LoadSettingsAllOrNothing ==
    [][ result'.op = "load" =>
          LET failed == \/ result'.cause.raised_by = "load_settings"
                        \/ result'.kind = "KeyError"
          IN  /\ ~SettingsFault =>
                    LET raw_settings == disk[SETTINGS_FILENAME]
                    IN  /\ ~failed
                        /\ language' = raw_settings["language"]
                        /\ runtime' = raw_settings["runtime"]
                        /\ entrypoint' = raw_settings["entrypoint"]
                        /\ type_info' = Split(raw_settings["typeName"], "::")
                        /\ Has(raw_settings, "testEntrypoint") =>
                              test_entrypoint' = raw_settings["testEntrypoint"]
                        /\ settings' = Get(raw_settings, "settings", EmptyDict)
              /\ failed =>
                    /\ language' = language
                    /\ runtime' = runtime
                    /\ entrypoint' = entrypoint
                    /\ test_entrypoint' = test_entrypoint
                    /\ settings' = settings
                    /\ type_info' = type_info ]_vars

-----------------------------------------------------------------------------
(* Properties of submit *)

SubmitEnded == pc = "idle" /\ result.op = "submit"

Calls(op) == {i \in 1..Len(calls) : calls[i].op = op}

Called(op) == Calls(op) /= {}

CallOps == [i \in 1..Len(calls) |-> calls[i].op]

IsPrefix(s, t) == Len(s) <= Len(t) /\ \A i \in 1..Len(s) : s[i] = t[i]

Reported(op, outcome) == \E i \in Calls(op) : calls[i].outcome = outcome

LastCall == calls[Len(calls)]

RegistryOps ==
    {"register_type", "wait", "describe_type_registration",
     "set_type_default_version"}

RemoteOps ==
    RegistryOps \cup {"create_or_update_role", "upload", "get_log_delivery_role_arn"}

(* the waiter reported failure and the diagnostic read returned a response *)
WaiterFailedAndDescribed ==
    /\ SubmitEnded
    /\ Reported("wait", "WaiterError")
    /\ Reported("describe_type_registration", "ok")

(* C1, as claimed: when the waiter reports failure and the diagnostic read
   returns, submit ends with a Downstream failure whose message includes the
   status message of that read. *)
C1_MessageIncludesReason ==
    WaiterFailedAndDescribed =>
        /\ result.kind = "DownstreamError"
        /\ Includes(result.msg, response["Description"])

(* C1, amended: when the waiter reports failure and the diagnostic read
   returns, submit ends with a Downstream failure with the fixed message
   "Type registration error", chained to the waiter's error; the response of
   the diagnostic read, with its status message, is logged as a warning
   before the failure is raised and is not part of the message. *)
C1_FixedMessageReasonLogged ==
    WaiterFailedAndDescribed =>
        /\ result.kind = "DownstreamError"
        /\ result.msg = <<"Type registration error">>
        /\ result.cause = Cause("WaiterError", "wait")
        /\ response["Description"] \in Reasons
        /\ log[Len(log)].msg = <<"Please see response for additional information: ">>
        /\ log[Len(log)].response = response

C1_Witness ==
    /\ WaiterFailedAndDescribed
    /\ response["Description"] = <<"status-message-", ToString(MaxReasons)>>

FullPipeline ==
    <<"upload", "get_log_delivery_role_arn", "register_type", "wait",
      "describe_type_registration", "set_type_default_version">>

(* C3, as claimed: the upload comes before execution-role provisioning, role
   provisioning is invoked only after a successful upload, and register_type
   only after the upload. *)
C3_UploadBeforeRole ==
    /\ \A i \in Calls("create_or_update_role") :
          \E j \in Calls("upload") : j < i /\ calls[j].outcome = "ok"
    /\ \A i \in Calls("register_type") :
          \E j \in Calls("upload") : j < i /\ calls[j].outcome = "ok"

(* C3, amended: the remote steps happen in the order PACKAGED ->
   ROLE_PROVISIONED (optional) -> UPLOADED -> REGISTERING -> {COMPLETE |
   FAILED}: role provisioning, when it is entered, is the first remote call
   and comes before the upload; the upload is invoked only after packaging
   and, when a role is to be provisioned, only after the provisioning has
   succeeded; register_type is invoked only after a successful upload. *)
C3_RoleBeforeUpload ==
    /\ \/ IsPrefix(CallOps, FullPipeline)
       \/ IsPrefix(CallOps, <<"create_or_update_role">> \o FullPipeline)
    /\ \A i \in 1..Len(calls) : i < Len(calls) => calls[i].outcome \in {"ok", "WaiterError"}
    /\ \A i \in Calls("upload") :
          /\ {SCHEMA_UPLOAD_FILENAME, SETTINGS_FILENAME} \subseteq calls[i].entries
          /\ (args.use_role /\ Falsy(args.role_arn) /\ "handlers" \in DOMAIN schema)
                => Reported("create_or_update_role", "ok")
    /\ \A i \in Calls("register_type") : Reported("upload", "ok")

C3_Witness ==
    /\ CallOps = <<"create_or_update_role", "upload", "get_log_delivery_role_arn",
                   "register_type">>
    /\ pc = "wait"

(* C4, as claimed: every client error raised by a registry call made during
   submit (register_type, the waiter, either describe_type_registration,
   set_type_default_version) makes submit end with a Downstream failure that
   wraps the error as its cause. *)
C4_RegistryErrorsAreDownstream ==
    \A i \in 1..Len(calls) :
        (calls[i].op \in RegistryOps /\ calls[i].outcome \in {"ClientError", "WaiterError"}
            /\ SubmitEnded)
        => /\ result.kind = "DownstreamError"
           /\ result.cause.kind \in {"ClientError", "WaiterError"}

(* C5: on the waiter-failure path describe_type_registration is called
   exactly once; when that call fails with a client error submit ends with
   the Downstream failure "Error describing type registration", chained to
   that error; set_type_default_version is never called on this path, also
   when set_default was requested. *)
C5_WaiterFailurePath ==
    Reported("wait", "WaiterError") =>
        /\ ~Called("set_type_default_version")
        /\ Cardinality(Calls("describe_type_registration")) <= 1
        /\ SubmitEnded =>
              /\ Cardinality(Calls("describe_type_registration")) = 1
              /\ result.kind = "DownstreamError"
              /\ Reported("describe_type_registration", "ClientError") =>
                    /\ result.msg = <<"Error describing type registration">>
                    /\ result.cause = Cause("ClientError", "describe_type_registration")
        /\ ~SubmitEnded => pc = "describe_failed"

C5_Witness ==
    /\ SubmitEnded
    /\ args.set_default
    /\ Reported("wait", "WaiterError")
    /\ Reported("describe_type_registration", "ClientError")

(* C6: a register_type rejected with a client error ends submit with a
   Downstream failure and is terminal: register_type is called once, and the
   waiter, describe_type_registration and set_type_default_version are not
   called in that submit. *)
C6_RejectionIsTerminal ==
    Reported("register_type", "ClientError") =>
        /\ SubmitEnded
        /\ result.kind = "DownstreamError"
        /\ result.cause = Cause("ClientError", "register_type")
        /\ Cardinality(Calls("register_type")) = 1
        /\ LastCall.op = "register_type"
        /\ ~Called("wait")
        /\ ~Called("describe_type_registration")
        /\ ~Called("set_type_default_version")

C6_Witness ==
    /\ Reported("register_type", "ClientError")
    /\ args.set_default
    /\ Called("create_or_update_role")

(* C7: when the waiter reports success submit makes one final
   describe_type_registration read; once that read has returned,
   set_type_default_version is called if and only if set_default was
   requested, with the TypeVersionArn of that read; a client error from it
   ends submit with the Downstream failure "Error setting default version",
   not "Type registration error", and that failure occurs only after the
   waiter reported success. *)
C7_DefaultVersionAfterSuccess ==
    /\ (SubmitEnded /\ Reported("wait", "ok")) =>
          Cardinality(Calls("describe_type_registration")) = 1
    /\ (SubmitEnded /\ Reported("wait", "ok")
            /\ Reported("describe_type_registration", "ok")) =>
          (Called("set_type_default_version") <=> args.set_default)
    /\ \A i \in Calls("set_type_default_version") :
          /\ args.set_default
          /\ Reported("wait", "ok")
          /\ calls[i - 1].op = "describe_type_registration"
          /\ calls[i - 1].outcome = "ok"
          /\ response["ProgressStatus"] = "COMPLETE"
          /\ calls[i].Arn = response["TypeVersionArn"]
          /\ calls[i].Arn \in TypeVersionArns
          /\ calls[i].outcome = "ClientError" =>
                /\ SubmitEnded
                /\ result.kind = "DownstreamError"
                /\ result.msg = <<"Error setting default version">>
                /\ result.cause = Cause("ClientError", "set_type_default_version")
    /\ (result.op = "submit" /\ result.msg = <<"Error setting default version">>) =>
          /\ Reported("wait", "ok")
          /\ Reported("set_type_default_version", "ClientError")
    /\ (result.op = "submit" /\ result.msg = <<"Type registration error">>) =>
          Reported("wait", "WaiterError")

C7_Witness ==
    /\ SubmitEnded
    /\ Reported("set_type_default_version", "ClientError")
    /\ response["TypeVersionArn"] = "arn:type-version/2"

(* C8: once a non-dry-run submit has passed the role decision of _upload,
   create_or_update_role has been invoked if and only if use_role is true, no
   role_arn was supplied and the schema declares handlers. *)
C8_RoleProvisionedIffNeeded ==
    /\ Called("create_or_update_role") =>
          /\ ~args.dry_run
          /\ args.use_role
          /\ args.role_arn \in {None, ""}
          /\ "handlers" \in DOMAIN schema
    /\ (pc = "upload" \/ Len(calls) > 0) =>
          (Called("create_or_update_role") <=>
              (args.use_role /\ args.role_arn \in {None, ""}
                  /\ "handlers" \in DOMAIN schema))
    /\ (pc \in {"log_role", "register", "wait", "describe", "describe_failed",
                "set_default"}) => Len(calls) > 0

C8_Witness ==
    /\ pc = "upload"
    /\ Called("create_or_update_role")
    /\ args.role_arn = ""

(* C9, as claimed: whenever submit enters role provisioning, the template
   handed to create_or_update_role is the one the synthesizer builds from the
   handlers of the schema the project holds, also when no generate came
   between the last load and the submit. (Stated for the calls that find a
   template file: a submit before any generate hands over the path of a file
   that does not exist.) *)
C9_TemplateBuiltFromHeldSchema ==
    \A i \in Calls("create_or_update_role") :
        calls[i].template /= NoTemplate =>
            calls[i].template = RoleTemplate(schema["handlers"], hypenated_name)

(* C10: in one submit each of create_or_update_role, upload,
   get_log_delivery_role_arn, register_type, the waiter's wait,
   describe_type_registration and set_type_default_version is invoked at most
   once, whatever the calls report. *)
C10_NoRetry ==
    \A op \in RemoteOps : Cardinality(Calls(op)) <= 1

C10_Witness ==
    /\ SubmitEnded
    /\ Len(calls) = 7
    /\ LastCall.outcome = "ClientError"

CoreEntries == {SCHEMA_UPLOAD_FILENAME, SETTINGS_FILENAME}

(* the zip file of the running or last submit holds all its entries *)
ArchiveComplete == plugin = <<"package">>

(* C18: once submit has written its own entries the archive holds
   schema.json and .rpdk-config, and overrides.json exactly when the
   overrides file is on disk; a missing overrides file fails nothing; a
   missing schema or settings file ends submit before the plugin's package
   step and before any remote call; the plugin packages after the core
   entries, and every remote call, the upload first of all, comes after the
   archive is complete and uploads exactly its entries. *)
C18_ArchiveEntries ==
    /\ (result.op = "submit" /\ (pc \notin {"idle", "zip"} \/ ArchiveComplete)) =>
          /\ CoreEntries \subseteq archive
          /\ OVERRIDES_FILENAME \in archive <=> Exists(OVERRIDES_FILENAME)
    /\ (result.op = "submit" /\ type_info /= None /\ pc \notin {"zip"}
            /\ ~(Exists(schema_filename) /\ Exists(SETTINGS_FILENAME))) =>
          /\ pc = "idle"
          /\ result.kind = "FileNotFoundError"
          /\ plugin = <<>>
          /\ calls = <<>>
    /\ (result.op = "submit" /\ type_info /= None /\ pc = "idle"
            /\ Exists(schema_filename) /\ Exists(SETTINGS_FILENAME)) =>
          ArchiveComplete
    /\ "package" \in Range(plugin) => CoreEntries \subseteq archive
    /\ Len(calls) > 0 => ArchiveComplete
    /\ \A i \in Calls("upload") :
          /\ calls[i].entries = archive
          /\ CoreEntries \cup {<<"plugin-artifacts">>} \subseteq calls[i].entries

C18_Witness ==
    /\ Reported("upload", "ok")
    /\ ~Exists(OVERRIDES_FILENAME)
    /\ archive = CoreEntries \cup {<<"plugin-artifacts">>}

(* C20: a dry-run submit makes no remote call, whatever its other
   arguments, and when it returns the archive lies on disk under the
   dash-joined lowercase resource name with all its entries; a submit that
   is not a dry run never ends after packaging: it goes on into _upload. *)
C20_DryRunStaysLocal ==
    /\ (result.op = "submit" /\ args.dry_run) =>
          /\ calls = <<>>
          /\ pc \in {"idle", "zip", "plugin_package", "packaged"}
    /\ (SubmitEnded /\ args.dry_run /\ result.kind = "return") =>
          /\ Exists(Lower(Join(type_info, <<"-">>)) \o <<".zip">>)
          /\ disk[Lower(Join(type_info, <<"-">>)) \o <<".zip">>] = archive
          /\ ArchiveComplete
          /\ CoreEntries \subseteq archive
    /\ (SubmitEnded /\ ~args.dry_run /\ ArchiveComplete) =>
          IF calls = <<>>
          THEN result.kind = "TypeError" /\ schema = NoSchema
          ELSE \/ Called("upload")
               \/ /\ LastCall.op = "create_or_update_role"
                  /\ LastCall.outcome /= "ok"

C20_Witness ==
    /\ SubmitEnded
    /\ args.dry_run
    /\ args.use_role
    /\ args.set_default
    /\ result.kind = "return"
    /\ "handlers" \in DOMAIN schema

(* C21: the registration request carries an ExecutionRoleArn if and only
   if use_role is true and a role ARN is available, supplied by the caller
   or returned by the role provisioning of this submit; with use_role false
   a supplied role ARN is never sent; with use_role true, no supplied role
   ARN and no handlers in the schema none is sent; a role ARN supplied with
   use_role true is sent as it is, and otherwise the ARN sent is the one
   the provisioning returned. *)
C21_ExecutionRoleArn ==
    \A i \in Calls("register_type") :
       LET kwargs == calls[i].kwargs
           sent == Has(kwargs, "ExecutionRoleArn")
           supplied == ~Falsy(args.role_arn)
           provisioned == Reported("create_or_update_role", "ok")
       IN  /\ sent <=> (args.use_role /\ (supplied \/ provisioned))
           /\ ~args.use_role => ~sent
           /\ (args.use_role /\ ~supplied /\ ~Has(schema, "handlers")) => ~sent
           /\ (args.use_role /\ supplied) =>
                 /\ sent
                 /\ kwargs["ExecutionRoleArn"] = args.role_arn
                 /\ ~Called("create_or_update_role")
           /\ (sent /\ ~supplied) =>
                 kwargs["ExecutionRoleArn"] = ProvisionedRoleArn

C21_Witness ==
    /\ Called("register_type")
    /\ LastCall.op = "register_type"
    /\ args.use_role
    /\ Falsy(args.role_arn)
    /\ Reported("create_or_update_role", "ok")
    /\ Has(LastCall.kwargs, "ExecutionRoleArn")
    /\ LastCall.kwargs["ExecutionRoleArn"] = ProvisionedRoleArn

-----------------------------------------------------------------------------
(* Schema documents in memory.                                            *)
(*                                                                        *)
(* A node is a function from keys to values; the value of "properties" is *)
(* a function from property names to slots, the value of "items" a slot.  *)
(* A slot holds a node of its own or, where Python holds a second         *)
(* reference to an object of self.schema["definitions"], the record       *)
(* [alias |-> name]: a change of the definition is then seen through      *)
(* every slot that refers to it.                                          *)


Alias(name) == [alias |-> name]

IsAlias(slot) == DOMAIN slot = {"alias"}

MemberKeys == {"properties", "patternProperties"}

ItemKeys == {"items", "arrayitems"}

(* the value a slot stands for: what json.dumps writes and a template reads *)
RECURSIVE Deref(_, _)
Deref(defs, slot) ==
    IF IsAlias(slot) THEN Deref(defs, defs[slot["alias"]])
    ELSE [k \in DOMAIN slot |->
            IF k \in MemberKeys
            THEN [n \in DOMAIN slot[k] |-> Deref(defs, slot[k][n])]
            ELSE IF k \in ItemKeys THEN Deref(defs, slot[k])
            ELSE slot[k]]

Definitions(s) == IF Has(s, "definitions") THEN s["definitions"] ELSE <<>>

(* the schema as a JSON value *)
DerefSchema(s) ==
    [k \in DOMAIN s |->
        IF k \in {"properties", "definitions"}
        THEN [n \in DOMAIN s[k] |-> Deref(Definitions(s), s[k][n])]
        ELSE s[k]]

-----------------------------------------------------------------------------
(* JSON pointers: rpdk.core.jsonutils.pointer and utils.traverse *)

Escape(part) ==
    [i \in 1..Len(part) |->
        CASE part[i] = "~" -> "~0" [] part[i] = "/" -> "~1" [] OTHER -> part[i]]

Unescape(part) ==
    [i \in 1..Len(part) |->
        CASE part[i] = "~0" -> "~" [] part[i] = "~1" -> "/" [] OTHER -> part[i]]

fragment_encode(parts, prefix) ==
    Join(<<prefix>> \o [i \in 1..Len(parts) |-> Escape(parts[i])], <<"/">>)

(* [ok |-> FALSE] stands for the ValueError of a pointer without the prefix *)
fragment_decode(pointer, prefix) ==
    LET segments == Split(pointer, "/")
    IN  IF segments[1] /= prefix THEN [ok |-> FALSE, path |-> <<>>]
        ELSE [ok |-> TRUE,
              path |-> [i \in 1..(Len(segments) - 1) |-> Unescape(segments[i + 1])]]


(* jsonutils.utils.traverse over a JSON value: "map" is a dict keyed by
   property or definition names, "node" a schema node, "bool" a flag, "leaf"
   a string or a list. Indexing a string or a list by a name raises the
   ValueError of int(part); indexing a flag raises TypeError. *)
KindOf(key) ==
    IF key \in MemberKeys \cup {"definitions"} THEN "map"
    ELSE IF key \in ItemKeys THEN "node"
    ELSE IF key \in {"createonly", "readonly"} THEN "bool"
    ELSE "leaf"

RECURSIVE traverse(_, _, _)
traverse(document, kind, path) ==
    IF path = <<>> THEN [ok |-> TRUE, error |-> None, value |-> document]
    ELSE LET part == Head(path)
             missing == [ok |-> FALSE, error |-> "KeyError", value |-> <<>>]
         IN  CASE kind = "map" ->
                    IF part \in DOMAIN document
                    THEN traverse(document[part], "node", Tail(path))
                    ELSE missing
               [] kind = "node" ->
                    IF Len(part) = 1 /\ part[1] \in DOMAIN document
                    THEN traverse(document[part[1]], KindOf(part[1]), Tail(path))
                    ELSE missing
               [] kind = "bool" ->
                    [ok |-> FALSE, error |-> "TypeError", value |-> <<>>]
               [] OTHER ->
                    [ok |-> FALSE, error |-> "ValueError", value |-> <<>>]

-----------------------------------------------------------------------------
(* Project.generate_docs and its helpers *)

BASIC_TYPE_MAPPINGS ==
    [string |-> <<"String">>, number |-> <<"Double">>, integer |-> <<"Double">>,
     boolean |-> <<"Boolean">>]

(* the order in which the dicts of the model's schemas hold their keys *)
PropOrder ==
    << <<"A">>, <<"a">>, <<"a", "-", "b">>, <<"b">>, <<"x">>, <<"id">> >>

NameRank(name) == CHOOSE i \in 1..Len(PropOrder) : PropOrder[i] = name

RECURSIVE Ordered(_)
Ordered(names) ==
    IF names = {} THEN <<>>
    ELSE LET first == CHOOSE n \in names : \A m \in names : NameRank(n) <= NameRank(m)
         IN  <<first>> \o Ordered(names \ {first})

(* RefResolver.from_schema(self.schema).resolve("#/definitions/<name>") *)
RefTarget(ref) == ref[2]

DocsPath(filename) == <<"docs/">> \o filename

README == DocsPath(<<"README.md">>)

(* shutil.rmtree(docs_path) *)
RemoveDocs(d) == [p \in {q \in DOMAIN d : q[1] /= "docs/"} |-> d[p]]

safewrite(d, path, contents) ==
    IF overwrite_enabled \/ path \notin DOMAIN d THEN WriteFile(d, path, contents)
    ELSE d

InPointerList(key, pointer) ==
    Has(schema, key) /\ pointer \in Range(schema[key])

Some(value) == [some |-> value]

Nothing == [None |-> TRUE]

(* the one element of a singleton: Only({e(x) : x \in {v}}) evaluates v once *)
Only(S) == CHOOSE x \in S : TRUE

Display(node, json, yaml, long) ==
    Put(Put(Put(node, "jsontype", json), "yamltype", yaml), "longformtype", long)

RECURSIVE SetDocsProperties(_, _, _, _)
RECURSIVE WalkMembers(_, _, _, _, _)

(* _set_docs_properties(propname, prop, proppath). st holds the objects of
   self.schema["definitions"] and the files on disk; the result holds both
   after the call and the slot of the returned object. *)
SetDocsProperties(st, propname, prop, proppath) ==
    LET held == IF IsAlias(prop) THEN st.defs[prop["alias"]] ELSE prop
        owner == IF Has(held, "$ref") THEN RefTarget(held["$ref"])
                 ELSE IF IsAlias(prop) THEN prop["alias"] ELSE ""
        resolved == IF Has(held, "$ref") THEN st.defs[RefTarget(held["$ref"])]
                    ELSE held
        proppath_ptr == fragment_encode(<< <<"properties">> >> \o proppath, <<>>)
        p1 == IF InPointerList("createOnlyProperties", proppath_ptr)
              THEN Put(resolved, "createonly", TRUE) ELSE resolved
        flagged == IF InPointerList("readOnlyProperties", proppath_ptr)
                   THEN Put(p1, "readonly", TRUE) ELSE p1
        Typed(p2) ==
            LET prop_type == IF Has(p2, "type") THEN p2["type"] ELSE "object"
            IN  IF prop_type \in DOMAIN BASIC_TYPE_MAPPINGS
                THEN LET mapped == BASIC_TYPE_MAPPINGS[prop_type]
                     IN  [st |-> st, prop |-> Display(p2, mapped, mapped, mapped)]
                ELSE IF prop_type = "array"
                THEN Only({
                       LET arrayitems == r.prop
                           item == IF IsAlias(arrayitems)
                                   THEN r.st.defs[arrayitems["alias"]]
                                   ELSE arrayitems
                           same == ~IsAlias(p2["items"]) /\ ~Has(p2["items"], "$ref")
                           p3 == Put(IF same THEN Put(p2, "items", arrayitems) ELSE p2,
                                     "arrayitems", arrayitems)
                       IN  [st |-> r.st,
                            prop |-> Display(p3,
                                        <<"[ ">> \o item["jsontype"] \o <<", ... ]">>,
                                        <<"\n      - ">> \o item["longformtype"],
                                        <<"List of ">> \o item["longformtype"])]
                       : r \in {SetDocsProperties(st, propname, p2["items"], proppath)} })
                ELSE IF prop_type = "object"
                THEN LET source ==
                             IF Has(p2, "properties") /\ DOMAIN p2["properties"] /= {}
                             THEN "properties"
                             ELSE IF Has(p2, "patternProperties")
                                     /\ DOMAIN p2["patternProperties"] /= {}
                             THEN "patternProperties"
                             ELSE ""
                         object_properties == IF source = "" THEN <<>> ELSE p2[source]
                     IN  Only({
                           LET p3 == IF source = "patternProperties"
                                     THEN Put(p2, "patternProperties",
                                              [n \in DOMAIN object_properties |->
                                                  IF Has(object_properties[n], "$ref")
                                                  THEN object_properties[n]
                                                  ELSE w.props[n]])
                                     ELSE p2
                               p4 == Put(p3, "properties", w.props)
                               subproperty_name == Join(proppath, <<" ">>)
                               subproperty_filename ==
                                   Lower(Join(proppath, <<"-">>)) \o <<".md">>
                               contents == [type_name |-> type_name,
                                            subproperty_name |-> subproperty_name,
                                            schema |-> Deref(w.st.defs, p4)]
                               href == <<"<a href=">> \o subproperty_filename \o <<">">>
                                           \o propname \o <<"</a>">>
                           IN  [st |-> [defs |-> w.st.defs,
                                        disk |-> safewrite(w.st.disk,
                                                           DocsPath(subproperty_filename),
                                                           contents)],
                                prop |-> Display(p4, href, href, href)]
                           : w \in {WalkMembers(st, object_properties,
                                                Ordered(DOMAIN object_properties),
                                                proppath, <<>>)} })
                ELSE [st |-> st,
                      prop |-> Display(p2, <<"Unknown">>, <<"Unknown">>, <<"Unknown">>)]
    IN  Only({
          LET final == IF Has(typed.prop, "enum")
                       THEN Put(typed.prop, "allowedvalues", typed.prop["enum"])
                       ELSE typed.prop
          IN  IF owner = "" THEN [st |-> typed.st, prop |-> final]
              ELSE [st |-> [defs |-> Put(typed.st.defs, owner, final),
                            disk |-> typed.st.disk],
                    prop |-> Alias(owner)]
          : typed \in {Only({Typed(p2) : p2 \in {flagged}})} })

(* the dict comprehensions of lines 365-368 and 455-458 *)
WalkMembers(st, members, names, proppath, done) ==
    IF names = <<>> THEN [st |-> st, props |-> done]
    ELSE Only({ WalkMembers(r.st, members, Tail(names), proppath,
                            Put(done, Head(names), r.prop))
                : r \in {SetDocsProperties(st, Head(names), members[Head(names)],
                                           proppath \o <<Head(names)>>)} })

(* PrimaryIdentifier that takes the first pointer of a longer list *)
PrimaryIdentifierOfFirstPointer(docs_schema) ==
    IF ~Has(docs_schema, "primaryIdentifier") THEN Nothing
    ELSE LET primary_id == docs_schema["primaryIdentifier"]
         IN  IF Len(primary_id) = 0 THEN Nothing
             ELSE LET decoded == fragment_decode(primary_id[1], <<>>)
                      primary_id_path == IF decoded.path = <<>> THEN <<>>
                                         ELSE Tail(decoded.path)
                  IN  IF decoded.ok /\ Len(primary_id_path) = 1
                      THEN Some(primary_id_path[1]) ELSE Nothing

(* _get_docs_primary_identifier *)
PrimaryIdentifier(docs_schema) ==
    IF ~Has(docs_schema, "primaryIdentifier") THEN Nothing
    ELSE LET primary_id == docs_schema["primaryIdentifier"]
         IN  IF Len(primary_id) /= 1 THEN Nothing
             ELSE LET decoded == fragment_decode(primary_id[1], <<>>)
                      primary_id_path == IF decoded.path = <<>> THEN <<>>
                                         ELSE Tail(decoded.path)
                  IN  IF decoded.ok /\ Len(primary_id_path) = 1
                      THEN Some(primary_id_path[1]) ELSE Nothing

(* _get_docs_gettable_atts: the list of attributes, or the exception that
   leaves it (fragment_decode and path[-1] stand outside its try) *)
GettableAtts(docs_schema) ==
    LET pointers == IF Has(docs_schema, "readOnlyProperties")
                    THEN docs_schema["readOnlyProperties"] ELSE <<>>
        Decoded(i) == fragment_decode(pointers[i], <<>>)
        Failure(i) == IF ~Decoded(i).ok THEN "ValueError"
                      ELSE IF Decoded(i).path = <<>> THEN "IndexError"
                      ELSE LET t == traverse(docs_schema, "node",
                                        Decoded(i).path \o << <<"description">> >>)
                           IN  IF ~t.ok /\ t.error = "TypeError" THEN "TypeError"
                               ELSE None
        failed == {i \in 1..Len(pointers) : Failure(i) /= None}
        Description(i) ==
            LET path == Decoded(i).path
                name == path[Len(path)]
                t == traverse(docs_schema, "node", path \o << <<"description">> >>)
            IN  [name |-> name,
                 description |-> IF t.ok THEN t.value
                                 ELSE <<"Returns the <code>">> \o name
                                          \o <<"</code> value.">>]
    IN  IF failed /= {}
        THEN [ok |-> FALSE,
              error |-> Failure(CHOOSE i \in failed : \A j \in failed : i <= j),
              atts |-> <<>>]
        ELSE [ok |-> TRUE, error |-> None,
              atts |-> [i \in 1..Len(pointers) |-> Description(i)]]

(* GenerateDocs that writes into the documentation directory as it finds it *)
GenerateDocsKeepsDirectory ==
    /\ pc = "idle"
    /\ ResetRun
    /\ plugin' = <<>>
    /\ UNCHANGED <<overwrite_enabled, language, runtime, entrypoint, test_entrypoint, settings, type_info, pc>>
    /\ IF type_info = None \/ schema = NoSchema \/ DOMAIN schema = {}
          \/ ~Has(schema, "properties")
       THEN /\ result' = Returned("generate_docs")
            /\ UNCHANGED <<schema, disk>>
       ELSE \E copy \in {DerefSchema(schema)} :
            \E w \in {WalkMembers([defs |-> Definitions(schema),
                                   disk |-> disk],
                                  copy["properties"],
                                  Ordered(DOMAIN copy["properties"]), <<>>, <<>>)} :
            \E docs_schema \in
                  {Put(copy, "properties",
                       [n \in DOMAIN w.props |-> Deref(w.st.defs, w.props[n])])} :
            \E getatt \in {GettableAtts(docs_schema)} :
               LET ref == PrimaryIdentifier(docs_schema)
                   contents == [type_name |-> type_name, schema |-> docs_schema,
                                ref |-> ref, getatt |-> getatt.atts]
               IN  /\ schema' = IF Has(schema, "definitions")
                                THEN Put(schema, "definitions", w.st.defs)
                                ELSE schema
                   /\ IF getatt.ok
                      THEN /\ disk' = safewrite(w.st.disk, README, contents)
                           /\ result' = Returned("generate_docs")
                      ELSE /\ disk' = w.st.disk
                           /\ result' = Outcome("generate_docs", getatt.error,
                                                <<>>, NoCause)

GenerateDocs ==
    /\ pc = "idle"
    /\ ResetRun
    /\ plugin' = <<>>
    /\ UNCHANGED <<overwrite_enabled, language, runtime, entrypoint, test_entrypoint, settings, type_info, pc>>
    /\ IF type_info = None \/ schema = NoSchema \/ DOMAIN schema = {}
          \/ ~Has(schema, "properties")
       THEN /\ result' = Returned("generate_docs")
            /\ UNCHANGED <<schema, disk>>
       ELSE \E copy \in {DerefSchema(schema)} :
            \E w \in {WalkMembers([defs |-> Definitions(schema),
                                   disk |-> RemoveDocs(disk)],
                                  copy["properties"],
                                  Ordered(DOMAIN copy["properties"]), <<>>, <<>>)} :
            \E docs_schema \in
                  {Put(copy, "properties",
                       [n \in DOMAIN w.props |-> Deref(w.st.defs, w.props[n])])} :
            \E getatt \in {GettableAtts(docs_schema)} :
               LET ref == PrimaryIdentifier(docs_schema)
                   contents == [type_name |-> type_name, schema |-> docs_schema,
                                ref |-> ref, getatt |-> getatt.atts]
               IN  /\ schema' = IF Has(schema, "definitions")
                                THEN Put(schema, "definitions", w.st.defs)
                                ELSE schema
                   /\ IF getatt.ok
                      THEN /\ disk' = safewrite(w.st.disk, README, contents)
                           /\ result' = Returned("generate_docs")
                      ELSE /\ disk' = w.st.disk
                           /\ result' = Outcome("generate_docs", getatt.error,
                                                <<>>, NoCause)

-----------------------------------------------------------------------------
(* The documentation specification: a loaded project whose schema is one of *)
(* DocSchemas; the schema is loaded anew or documented.                     *)

Ref(name) == ("$ref" :> <<"#/definitions/", name>>)

StringNode == [type |-> "string"]

DocDefinitions ==
    { [type |-> "string", description |-> <<"A color.">>],
      [type |-> "object", properties |-> (<<"x">> :> StringNode)] }

DocPropertiesA ==
    { StringNode,
      Ref("D"),
      [type |-> "object", properties |-> (<<"x">> :> Ref("D"))],
      [type |-> "array", items |-> Ref("D")] }

Pointer(path) == fragment_encode(<< <<"properties">> >> \o path, <<>>)

RefSchemas ==
    { [typeName |-> ProjectTypeName,
       properties |-> props,
       definitions |-> [D |-> d],
       primaryIdentifier |-> <<Pointer(<< <<"a">> >>)>>,
       createOnlyProperties |-> createOnly,
       readOnlyProperties |-> <<Pointer(<< <<"a">> >>)>>] :
         props \in { (<<"a">> :> a) : a \in DocPropertiesA }
                     \cup { (<<"a">> :> a) @@ (<<"b">> :> Ref("D")) :
                              a \in DocPropertiesA },
         d \in DocDefinitions,
         createOnly \in {<<>>, <<Pointer(<< <<"b">>, <<"x">> >>)>>} }

(* schemas with two property paths of one dash-joined lowercase name: names
   that differ in letter case, and a property "a-b" beside the path a/b *)
ObjectNode(member) == [type |-> "object", properties |-> (member :> StringNode)]

CollidingSchemas ==
    { [typeName |-> ProjectTypeName,
       properties |-> props,
       primaryIdentifier |-> <<Pointer(<< <<"a">> >>)>>] :
         props \in { (<<"A">> :> ObjectNode(<<"x">>)) @@ (<<"a">> :> ObjectNode(<<"id">>)),
                     (<<"a">> :> [type |-> "object",
                                   properties |-> (<<"b">> :> ObjectNode(<<"x">>))])
                        @@ (<<"a", "-", "b">> :> ObjectNode(<<"id">>)) } }

(* schemas that differ in their primaryIdentifier and readOnlyProperties:
   pointers into the properties, to a nested member, to a property the
   schema does not have, without the leading "/", and the empty pointer *)
DescribedNode == [type |-> "string", description |-> <<"A color.">>]

PrimaryIdentifiers ==
    { <<>>,
      <<Pointer(<< <<"a">> >>)>>,
      <<Pointer(<< <<"b">> >>)>>,
      <<Pointer(<< <<"a">>, <<"x">> >>)>>,
      <<Pointer(<< <<"a">> >>), Pointer(<< <<"b">> >>)>>,
      <<Pointer(<<>>)>>,
      << <<"properties", "/", "a">> >> }

ReadOnlyPointerLists ==
    { <<>>,
      <<Pointer(<< <<"a">> >>)>>,
      <<Pointer(<< <<"b">> >>)>>,
      <<Pointer(<< <<"a">> >>), Pointer(<< <<"b">> >>)>>,
      <<Pointer(<< <<"a">>, <<"type">>, <<"x">> >>)>>,
      << <<"properties", "/", "a">> >>,
      <<Pointer(<< <<"b">> >>), <<>> >> }

PointerSchemas ==
    { [typeName |-> ProjectTypeName,
       properties |-> (<<"a">> :> a),
       primaryIdentifier |-> primary,
       readOnlyProperties |-> <<Pointer(<< <<"a">> >>)>>] :
         a \in {StringNode, DescribedNode}, primary \in PrimaryIdentifiers }
    \cup
    { [typeName |-> ProjectTypeName,
       properties |-> (<<"a">> :> a),
       readOnlyProperties |-> readOnly] :
         a \in {StringNode, DescribedNode}, readOnly \in ReadOnlyPointerLists }

DocSchemas == RefSchemas \cup CollidingSchemas \cup PointerSchemas


(* load_schema reading a schema the user has written *)
LoadDocSchema(s) ==
    /\ pc = "idle"
    /\ ResetRun
    /\ plugin' = <<>>
    /\ schema' = s
    /\ result' = Returned("load")
    /\ UNCHANGED <<overwrite_enabled, language, runtime, entrypoint, test_entrypoint, settings, type_info, pc, disk>>

InitDocs ==
    /\ overwrite_enabled \in BOOLEAN
    /\ type_info = Split(ProjectTypeName, "::")
    /\ language = ProjectSettings["language"]
    /\ runtime = ProjectSettings["runtime"]
    /\ entrypoint = ProjectSettings["entrypoint"]
    /\ test_entrypoint = ProjectSettings["testEntrypoint"]
    /\ settings = EmptyDict
    /\ schema \in DocSchemas
    /\ disk = (SETTINGS_FILENAME :> ProjectSettings)
    /\ pc = "idle"
    /\ args = NoArgs
    /\ role_arn = None
    /\ archive = {}
    /\ calls = <<>>
    /\ plugin = <<>>
    /\ log = <<>>
    /\ response = NoResponse
    /\ result = Returned("load")

NextDocs ==
    \/ \E s \in DocSchemas : LoadDocSchema(s)
    \/ GenerateDocs

SpecDocs == InitDocs /\ [][NextDocs]_vars


DocsFiles == [p \in {q \in DOMAIN disk : q[1] = "docs/"} |-> disk[p]]

(* generate_docs has run to its end and written the README *)
DocsWritten ==
    /\ result = Returned("generate_docs")
    /\ Exists(README)

ArtifactName(proppath) == Lower(Join(proppath, <<"-">>)) \o <<".md">>

(* the object-typed nodes of a documented schema, each with its property
   path; the items of an array stand at the path of the array *)
RECURSIVE ObjectNodes(_, _)
RECURSIVE NodesAt(_, _)

ObjectNodes(members, proppath) ==
    UNION {NodesAt(members[n], proppath \o <<n>>) : n \in DOMAIN members}

NodesAt(node, proppath) ==
    LET prop_type == IF Has(node, "type") THEN node["type"] ELSE "object"
    IN  IF prop_type = "array" THEN NodesAt(node["arrayitems"], proppath)
        ELSE IF prop_type = "object"
        THEN {[path |-> proppath, node |-> node]}
                \cup ObjectNodes(node["properties"], proppath)
        ELSE {}

DocumentedObjects == ObjectNodes(disk[README].schema["properties"], <<>>)

(* C14, as claimed: after a generate_docs run every property path of an
   object-typed node has a side artifact of its own, named by the dash-joined
   lowercased path and holding the members of that node, the node's display
   fields are a link to that artifact, and no two distinct paths share an
   artifact. *)
C14_OneArtifactPerPath ==
    DocsWritten =>
        /\ \A n \in DocumentedObjects :
              LET artifact == DocsPath(ArtifactName(n.path))
                  link == <<"<a href=">> \o ArtifactName(n.path) \o <<">">>
                             \o n.path[Len(n.path)] \o <<"</a>">>
              IN  /\ Exists(artifact)
                  /\ disk[artifact].subproperty_name = Join(n.path, <<" ">>)
                  /\ DOMAIN disk[artifact].schema["properties"]
                        = DOMAIN n.node["properties"]
                  /\ n.node["jsontype"] = link
                  /\ n.node["yamltype"] = link
                  /\ n.node["longformtype"] = link
        /\ \A n, m \in DocumentedObjects :
              n.path /= m.path => ArtifactName(n.path) /= ArtifactName(m.path)
        /\ Cardinality(DOMAIN DocsFiles \ {README})
              = Cardinality({n.path : n \in DocumentedObjects})

(* the property paths of the object-typed nodes of a schema held as a JSON
   value, $ref followed into its definitions *)
RECURSIVE PathsAt(_, _, _)
PathsAt(defs, node, proppath) ==
    LET resolved == IF Has(node, "$ref") THEN defs[RefTarget(node["$ref"])] ELSE node
        prop_type == IF Has(resolved, "type") THEN resolved["type"] ELSE "object"
        members == IF Has(resolved, "properties") /\ DOMAIN resolved["properties"] /= {}
                   THEN resolved["properties"]
                   ELSE IF Has(resolved, "patternProperties")
                   THEN resolved["patternProperties"]
                   ELSE <<>>
    IN  IF prop_type = "array" THEN PathsAt(defs, resolved["items"], proppath)
        ELSE IF prop_type = "object"
        THEN {proppath} \cup UNION {PathsAt(defs, members[n], proppath \o <<n>>) :
                                       n \in DOMAIN members}
        ELSE {}

ObjectPaths(s) ==
    UNION {PathsAt(Definitions(DerefSchema(s)), DerefSchema(s)["properties"][n], <<n>>) :
              n \in DOMAIN s["properties"]}

(* C15: after every generate_docs that finds type info and a schema with
   properties, the documentation directory holds the artifacts of this
   invocation and nothing else: one file per artifact name of the object
   paths of the held schema, each carrying the name of such a path, and the
   README (written when the invocation returns) renders the schema held
   now; whatever the directory held before is gone. *)
C15_DocsDirectoryRecreated ==
    [][ (/\ result'.op = "generate_docs"
         /\ type_info /= None /\ schema /= NoSchema /\ Has(schema, "properties")) =>
          /\ DOMAIN DocsFiles' =
                {DocsPath(ArtifactName(path)) : path \in ObjectPaths(schema)}
                   \cup (IF result'.kind = "return" THEN {README} ELSE {})
          /\ \A file \in DOMAIN DocsFiles' \ {README} :
                \E path \in ObjectPaths(schema) :
                   /\ file = DocsPath(ArtifactName(path))
                   /\ DocsFiles'[file].subproperty_name = Join(path, <<" ">>)
                   /\ DocsFiles'[file].type_name = type_name
          /\ README \in DOMAIN DocsFiles' =>
                /\ DocsFiles'[README].type_name = type_name
                /\ \A key \in DOMAIN schema \ {"properties"} :
                      DocsFiles'[README].schema[key] = DerefSchema(schema)[key]
                /\ DOMAIN DocsFiles'[README].schema["properties"]
                      = DOMAIN schema["properties"] ]_vars

C15_Witness ==
    /\ DocsWritten
    /\ ~overwrite_enabled
    /\ ObjectPaths(schema) = {}
    /\ DOMAIN DocsFiles = {README}
    /\ Has(schema, "definitions")
    /\ Has(schema["definitions"]["D"], "jsontype")

(* the names a property of the model's schemas can have *)
PropNames == Range(PropOrder)

(* the property name of a pointer "/properties/<name>", if it is one *)
NamedProperty(pointer) ==
    {name \in PropNames : pointer = <<"/", "properties", "/">> \o name}

WellFormed(pointer) == pointer /= <<>> /\ pointer[1] = "/"

(* C16: the primary identifier the README shows is the property name when
   primaryIdentifier is a list of exactly one pointer with exactly one
   segment after /properties, and absent for a longer or empty list, a
   pointer to a nested member, a missing primaryIdentifier or a pointer that
   does not decode; primary-identifier resolution never makes generate_docs
   fail. *)
C16_PrimaryIdentifier ==
    /\ DocsWritten =>
          LET primary_id == IF Has(schema, "primaryIdentifier")
                            THEN schema["primaryIdentifier"] ELSE <<>>
              ref == disk[README].ref
          IN  /\ (Len(primary_id) = 1 /\ NamedProperty(primary_id[1]) /= {}) =>
                    \E name \in NamedProperty(primary_id[1]) : ref = Some(name)
              /\ (Len(primary_id) /= 1 \/ NamedProperty(primary_id[1]) = {}) =>
                    ref = Nothing
              /\ primary_id = <<Pointer(<< <<"a">> >>)>> => ref = Some(<<"a">>)
    /\ (result.op = "generate_docs" /\ result.kind /= "return") =>
          /\ Has(schema, "readOnlyProperties")
          /\ \E i \in DOMAIN schema["readOnlyProperties"] :
                ~WellFormed(schema["readOnlyProperties"][i])

C16_Witness ==
    /\ DocsWritten
    /\ Has(schema, "primaryIdentifier")
    /\ Len(schema["primaryIdentifier"]) = 2
    /\ disk[README].ref = Nothing

(* C17, as claimed: gettable-attribute resolution never fails and yields one
   entry per readOnlyProperties pointer, named by the pointer's last
   segment, with the description of the node the pointer resolves to or,
   when there is none or the pointer is malformed, the generated default
   description. *)
C17_GettableAttsNeverFail ==
    (/\ result.op = "generate_docs"
     /\ type_info /= None /\ schema /= NoSchema /\ Has(schema, "properties")) =>
        /\ result.kind = "return"
        /\ Exists(README)
        /\ LET pointers == IF Has(schema, "readOnlyProperties")
                           THEN schema["readOnlyProperties"] ELSE <<>>
               getatt == disk[README].getatt
           IN  /\ Len(getatt) = Len(pointers)
               /\ \A i \in DOMAIN pointers :
                     LET described ==
                             {name \in NamedProperty(pointers[i]) :
                                 /\ name \in DOMAIN disk[README].schema["properties"]
                                 /\ Has(disk[README].schema["properties"][name],
                                        "description")}
                     IN  IF described /= {}
                         THEN \E name \in described :
                                 /\ getatt[i].name = name
                                 /\ getatt[i].description =
                                       disk[README].schema["properties"][name]["description"]
                         ELSE getatt[i].description =
                                 <<"Returns the <code>">> \o getatt[i].name
                                    \o <<"</code> value.">>

(* C2, as claimed: generate_docs leaves the schema the project holds as it
   was, and a second generate_docs in a row over the same in-memory schema
   writes the same documentation as the first. *)
C2_DocsLeaveSchemaAlone ==
    [][ /\ result'.op = "generate_docs" =>
              DerefSchema(schema') = DerefSchema(schema)
        /\ (result.op = "generate_docs" /\ result'.op = "generate_docs") =>
              DocsFiles' = DocsFiles ]_vars

=============================================================================
